---- MODULE Spec2Model ----
(***************************************************************************)
(* The operator-control loop of src/src/opcontrol.c as a state machine.    *)
(*                                                                         *)
(* One pass of the while(1) loop of operatorControl() is a tick.  The tick *)
(* is cut at its sections, in source order, and `pc` is the position of    *)
(* the task in the loop:                                                   *)
(*   "loop" -> "moveRobot" | "stopRobot" -> "pickup" -> "shooter" ->        *)
(*   "ramp" -> "lifter" -> "sorter" -> "sort" -> "delay" -> "loop"          *)
(* Every read of the joystick, of a digital pin, of the encoder and of the *)
(* clock is an input drawn by the action that makes the call; a value that *)
(* the code reads twice in a tick is drawn twice.  The actions take the    *)
(* sets their inputs are drawn from as parameters, and each specification  *)
(* below lets the inputs of the sections it is about range freely and      *)
(* holds the others at rest.                                               *)
(***************************************************************************)
EXTENDS Integers, FiniteSets, Sequences, TLC

VARIABLES
  pc,              \* position of the task in the loop of operatorControl()
  pickupIsActive,  \* int pickupIsActive
  lifterAtMax,     \* int lifterAtMax
  lifterAtMin,     \* int lifterAtMin
  sorterFriendly,  \* int sorterFriendly
  sorterEnemy,     \* int sorterEnemy
  pickupLastTime,  \* unsigned long pickupLastTime
  now,             \* the clock: what millis() returns
  enc,             \* the counter of the sorter's encoder
  motor,           \* actuator sink: the last command each motor port received
  issued,          \* the command each motor port received in the current tick
  inp,             \* the values the current tick has read so far
  prev,            \* history: reads and commands of the previous tick
  hist             \* history: previous phase and button, times of flips and edges

vars == <<pc, pickupIsActive, lifterAtMax, lifterAtMin, sorterFriendly,
          sorterEnemy, pickupLastTime, now, enc, motor, issued, inp, prev, hist>>

globals == <<pickupIsActive, lifterAtMax, lifterAtMin, sorterFriendly,
             sorterEnemy, pickupLastTime>>

(***************************************************************************)
(* Bounds of the model                                                     *)
(***************************************************************************)
\* the loop stops ticking once the clock has passed MaxTime
MaxTime == 260
\* the period of a tick that is held up beyond delay(20), in milliseconds
LongTick == 120

(***************************************************************************)
(* Constants of the program                                                *)
(***************************************************************************)
M_FRONT_LEFT == 2
M_FRONT_RIGHT == 3
M_BACK_LEFT == 4
M_BACK_RIGHT == 5
PICKUP == 1
SHOOTER == 7
RAMP == 8
SORTER == 9
LIFTER == 6
MIXER == 10
DEADZONE == 20
MIXER_SPEED == 30
debounceDelay == 100
\* the tick period, delay(20)
TickDelay == 20
\* digitalRead() of an engaged (pressed) limit switch, and of a released one
LOW == 0
HIGH == 1

Motors == 1..10
DriveMotors == {M_FRONT_LEFT, M_FRONT_RIGHT, M_BACK_LEFT, M_BACK_RIGHT}

\* commands of the actuator sink: motorSet(port, p), motorStop(port), and
\* "no command received"
Set(p) == <<"set", p>>
Stop == <<"stop", 0>>
NoCmd == <<"none", 0>>
NoCmds == [m \in Motors |-> NoCmd]

\* the sink receives the commands cmds (a function on some motor ports)
Send(cmds) ==
  /\ motor' = [m \in Motors |-> IF m \in DOMAIN cmds THEN cmds[m] ELSE motor[m]]
  /\ issued' = [m \in Motors |-> IF m \in DOMAIN cmds THEN cmds[m] ELSE issued[m]]

Abs(x) == IF x < 0 THEN -x ELSE x

\* C's !x on an int
Not(x) == IF x = 0 THEN 1 ELSE 0

(***************************************************************************)
(* Input domains                                                           *)
(***************************************************************************)
\* joystick axis samples: full scale, both sides of the deadzone edge, centre
AxisVals == {-127, -21, 0, 20, 127}
\* what moveRobot reads: full scale both ways, small values, and all centred
CtlVals == {-127, -21, 20, 127}
ControlTriples == (CtlVals \X CtlVals \X CtlVals) \cup {<<0, 0, 0>>}
\* the deadzone test reads one sample of each channel in every position
JoyTriples ==
  {<<a, 0, 0>> : a \in AxisVals} \cup {<<0, a, 0>> : a \in AxisVals}
    \cup {<<0, 0, a>> : a \in AxisVals}
    \cup {<<20, 20, 20>>, <<-21, 127, 20>>, <<127, 127, 127>>}
\* the stick centred, or pushed on channel 1
AxisRest == {<<0, 0, 0>>, <<0, 0, 127>>}
\* control[] of moveRobot with the stick centred, or pushed on channel 1
ControlRest == {<<0, 0, 0>>, <<0, 127, 0>>}
\* a pair of buttons: every combination, or both released
ButtonPairs == BOOLEAN \X BOOLEAN
ButtonsRest == {<<FALSE, FALSE>>}
\* the two limit switches
SwitchPairs == {LOW, HIGH} \X {LOW, HIGH}
SwitchesRest == {<<HIGH, HIGH>>}
\* the two reads of the Arduino pin in one tick
PinPairs == {LOW, HIGH} \X {LOW, HIGH}
PinsRest == {<<LOW, LOW>>}
\* encoder samples: both sides of each threshold, and zero
EncVals == {-91, -90, 0, 90, 91}
EncPairs == EncVals \X EncVals
EncRest == {<<0, 0>>}
\* a few values of every input, each read twice with the same result
ButtonsFew == {<<FALSE, FALSE>>, <<TRUE, FALSE>>, <<FALSE, TRUE>>}
ButtonsFirst == {<<FALSE, FALSE>>, <<TRUE, FALSE>>}
ControlPushed == {<<0, 127, 0>>}
SwitchesFew == {<<HIGH, HIGH>>, <<LOW, HIGH>>}
PinsFew == {<<LOW, LOW>>, <<HIGH, HIGH>>}
EncFew == {<<0, 0>>, <<-91, -91>>}

\* what a tick has read; the fields hold these values until they are read
NoInput ==
  [ joy |-> <<0, 0, 0>>,      \* channels 3, 4, 1 as read by the deadzone test
    control |-> <<0, 0, 0>>,  \* control[0..2] of moveRobot: channels 3, 1, 4
    b7 |-> FALSE,             \* button 7 right
    flip |-> FALSE,           \* handlePickup flipped pickupIsActive
    b5d |-> FALSE, b5u |-> FALSE, b6u |-> FALSE, b6d |-> FALSE,
    sMax |-> HIGH, sMin |-> HIGH,
    b8u |-> FALSE, b8d |-> FALSE, b8l |-> FALSE, b8r |-> FALSE,
    a1 |-> LOW, a2 |-> LOW,   \* the two reads of the Arduino pin
    f0 |-> 0, e0 |-> 0,       \* sorterFriendly, sorterEnemy on entry to sort()
    e1 |-> 0, e2 |-> 0 ]      \* the two reads of the encoder in sort()

NoPrev == [ok |-> FALSE, inp |-> NoInput, issued |-> NoCmds]

\* the sorter's state: Idle, SortingFriendly, SortingEnemy
Phase(f, e) ==
  IF f # 0 /\ e # 0 THEN "Both"
  ELSE IF f # 0 THEN "SortingFriendly"
  ELSE IF e # 0 THEN "SortingEnemy"
  ELSE "Idle"

\* -1 stands for "never"
NoHist ==
  [ phase |-> "Idle",      \* the sorter's state at the end of the previous tick
    b7 |-> FALSE,          \* button 7 right as the previous tick read it
    flips |-> <<-1, -1>>,  \* clock at the last two flips of pickupIsActive
    edges |-> <<-1, -1>>,  \* clock at the last two rising edges of button 7 right
    fresh |-> FALSE ]      \* the task was restarted and has not run a statement

Init ==
  /\ pc = "loop"
  /\ pickupIsActive = 0
  /\ lifterAtMax = 0
  /\ lifterAtMin = 0
  /\ sorterFriendly = 0
  /\ sorterEnemy = 0
  /\ pickupLastTime = 0
  /\ now = 0
  /\ enc = 0
  /\ motor = NoCmds
  /\ issued = NoCmds
  /\ inp = NoInput
  /\ prev = NoPrev
  /\ hist = NoHist

(***************************************************************************)
(* Drive: lines 90-95, moveRobot, stopRobot                                *)
(***************************************************************************)
\* mutant: the deadzone edge itself counts as a deflection
DriveMovesAtEdge(j) ==
  \/ Abs(j[1]) >= DEADZONE
  \/ Abs(j[2]) >= DEADZONE
  \/ Abs(j[3]) >= DEADZONE

\* the deadzone test of line 91 on the channels 3, 4, 1
DriveMoves(j) ==
  \/ Abs(j[1]) > DEADZONE
  \/ Abs(j[2]) > DEADZONE
  \/ Abs(j[3]) > DEADZONE

DriveCheck(Joy) ==
  /\ pc = "loop"
  /\ \E j \in Joy :
       /\ inp' = [inp EXCEPT !.joy = j]
       /\ pc' = IF DriveMoves(j) THEN "moveRobot" ELSE "stopRobot"
  /\ hist' = [hist EXCEPT !.fresh = FALSE]
  /\ UNCHANGED <<globals, now, enc, motor, issued, prev>>

\* mutant: the turn term of backRight has the sign of frontRight's
MoveRobotPowersSign(c) ==
  << 0 - c[2] - c[1] + c[3],
     0 - c[2] + c[1] + c[3],
     0 - c[2] - c[1] - c[3],
     0 - c[2] + c[1] + c[3] >>

\* frontLeft, frontRight, backLeft, backRight from control[0..2]
MoveRobotPowers(c) ==
  << 0 - c[2] - c[1] + c[3],
     0 - c[2] + c[1] + c[3],
     0 - c[2] - c[1] - c[3],
     0 - c[2] + c[1] - c[3] >>

DriveCmds(p) ==
  [m \in DriveMotors |->
     IF m = M_FRONT_LEFT THEN Set(p[1])
     ELSE IF m = M_FRONT_RIGHT THEN Set(p[2])
     ELSE IF m = M_BACK_LEFT THEN Set(p[3])
     ELSE Set(p[4])]

MoveRobot(Ctl) ==
  /\ pc = "moveRobot"
  /\ \E c \in Ctl :
       LET cmds == DriveCmds(MoveRobotPowers(c)) IN
       /\ inp' = [inp EXCEPT !.control = c]
       /\ Send(cmds)
  /\ pc' = "pickup"
  /\ UNCHANGED <<globals, now, enc, prev, hist>>

StopRobot ==
  /\ pc = "stopRobot"
  /\ Send([m \in DriveMotors |-> Stop])
  /\ pc' = "pickup"
  /\ UNCHANGED <<globals, now, enc, inp, prev, hist>>

(***************************************************************************)
(* Pickup: lines 97-106, handlePickup                                      *)
(***************************************************************************)
\* mutant: a press exactly debounceDelay after the last flip is accepted
HandlePickupFiresAtDelay(t, last) ==
  IF t >= last THEN t - last >= debounceDelay ELSE TRUE

\* the test of line 197 on t = millis(): t - last > debounceDelay in unsigned
\* long arithmetic (32 bits).  For t < last the difference wraps to
\* 2^32 - (last - t), above debounceDelay for every pair of times below 2^31
HandlePickupFires(t, last) ==
  IF t >= last THEN t - last > debounceDelay ELSE TRUE

\* what millis() can return when called again right after it returned t
MillisAfter(t) == {t, t + 1}

\* mutant: the motor is commanded from the flag as it was before handlePickup
PickupStale(B7) ==
  /\ pc = "pickup"
  /\ \E b \in B7, t2 \in MillisAfter(now) :
       LET fire == b /\ HandlePickupFires(now, pickupLastTime)
           active == IF fire THEN Not(pickupIsActive) ELSE pickupIsActive
           edge == b /\ ~hist.b7
       IN
       /\ pickupIsActive' = active
       /\ pickupLastTime' = IF fire THEN t2 ELSE pickupLastTime
       /\ now' = IF fire THEN t2 ELSE now
       /\ IF b
            THEN Send([m \in {PICKUP} |-> IF pickupIsActive # 0 THEN Set(127) ELSE Stop])
            ELSE UNCHANGED <<motor, issued>>
       /\ inp' = [inp EXCEPT !.b7 = b, !.flip = fire]
       /\ hist' = [hist EXCEPT
                     !.flips = IF fire THEN <<hist.flips[2], now>> ELSE @,
                     !.edges = IF edge THEN <<hist.edges[2], now>> ELSE @]
  /\ pc' = "shooter"
  /\ UNCHANGED <<lifterAtMax, lifterAtMin, sorterFriendly, sorterEnemy, enc, prev>>

\* mutant: every call of handlePickup stores the time, flip or no flip
PickupStamp(B7) ==
  /\ pc = "pickup"
  /\ \E b \in B7, t2 \in MillisAfter(now) :
       LET fire == b /\ HandlePickupFires(now, pickupLastTime)
           active == IF fire THEN Not(pickupIsActive) ELSE pickupIsActive
           edge == b /\ ~hist.b7
       IN
       /\ pickupIsActive' = active
       /\ pickupLastTime' = IF b THEN t2 ELSE pickupLastTime
       /\ now' = IF b THEN t2 ELSE now
       /\ IF b
            THEN Send([m \in {PICKUP} |-> IF active # 0 THEN Set(127) ELSE Stop])
            ELSE UNCHANGED <<motor, issued>>
       /\ inp' = [inp EXCEPT !.b7 = b, !.flip = fire]
       /\ hist' = [hist EXCEPT
                     !.flips = IF fire THEN <<hist.flips[2], now>> ELSE @,
                     !.edges = IF edge THEN <<hist.edges[2], now>> ELSE @]
  /\ pc' = "shooter"
  /\ UNCHANGED <<lifterAtMax, lifterAtMin, sorterFriendly, sorterEnemy, enc, prev>>

Pickup(B7) ==
  /\ pc = "pickup"
  /\ \E b \in B7, t2 \in MillisAfter(now) :
       LET fire == b /\ HandlePickupFires(now, pickupLastTime)
           active == IF fire THEN Not(pickupIsActive) ELSE pickupIsActive
           edge == b /\ ~hist.b7
       IN
       /\ pickupIsActive' = active
       /\ pickupLastTime' = IF fire THEN t2 ELSE pickupLastTime
       /\ now' = IF fire THEN t2 ELSE now
       /\ IF b
            THEN Send([m \in {PICKUP} |-> IF active # 0 THEN Set(127) ELSE Stop])
            ELSE UNCHANGED <<motor, issued>>
       /\ inp' = [inp EXCEPT !.b7 = b, !.flip = fire]
       /\ hist' = [hist EXCEPT
                     !.flips = IF fire THEN <<hist.flips[2], now>> ELSE @,
                     !.edges = IF edge THEN <<hist.edges[2], now>> ELSE @]
  /\ pc' = "shooter"
  /\ UNCHANGED <<lifterAtMax, lifterAtMin, sorterFriendly, sorterEnemy, enc, prev>>

(***************************************************************************)
(* Shooter and ramp: lines 109-123                                         *)
(***************************************************************************)
\* mutant: button 5 up is tested before button 5 down
ShooterCmdUpFirst(d, u) ==
  IF u THEN Stop
  ELSE IF d THEN Set(80)
  ELSE NoCmd

\* d: button 5 down, u: button 5 up; NoCmd when no call is made
ShooterCmd(d, u) ==
  IF d THEN Set(80)
  ELSE IF u THEN Stop
  ELSE NoCmd

Shooter(B5) ==
  /\ pc = "shooter"
  /\ \E b \in B5 :
       LET c == ShooterCmd(b[1], b[2]) IN
       /\ inp' = [inp EXCEPT !.b5d = b[1], !.b5u = b[2]]
       /\ IF c = NoCmd
            THEN UNCHANGED <<motor, issued>>
            ELSE Send([m \in {SHOOTER} |-> c])
  /\ pc' = "ramp"
  /\ UNCHANGED <<globals, now, enc, prev, hist>>

\* u: button 6 up, d: button 6 down
RampCmd(u, d) ==
  IF u THEN Set(127)
  ELSE IF d THEN Set(-127)
  ELSE Stop

Ramp(B6) ==
  /\ pc = "ramp"
  /\ \E b \in B6 :
       /\ inp' = [inp EXCEPT !.b6u = b[1], !.b6d = b[2]]
       /\ Send([m \in {RAMP} |-> RampCmd(b[1], b[2])])
  /\ pc' = "lifter"
  /\ UNCHANGED <<globals, now, enc, prev, hist>>

(***************************************************************************)
(* Lifter: lines 125-143                                                   *)
(***************************************************************************)
\* lines 126-133: the flag of a limit switch from its reading
AtLimit(reading) == IF reading = LOW THEN 1 ELSE 0

\* mutant: each direction is guarded by the other direction's flag
LifterCmdSwapped(u, d, atMax, atMin) ==
  IF u /\ atMin = 0 THEN Set(127)
  ELSE IF d /\ atMax = 0 THEN Set(-127)
  ELSE Stop

\* mutant: the up button, when pressed, decides alone
LifterCmdUpFirst(u, d, atMax, atMin) ==
  IF u THEN (IF atMax = 0 THEN Set(127) ELSE Stop)
  ELSE IF d /\ atMin = 0 THEN Set(-127)
  ELSE Stop

\* lines 135-142; u: button 8 up, d: button 8 down
LifterCmd(u, d, atMax, atMin) ==
  IF u /\ atMax = 0 THEN Set(127)
  ELSE IF d /\ atMin = 0 THEN Set(-127)
  ELSE Stop

\* mutant: the lifter is commanded from the flags of the previous tick, and
\* the flags are refreshed afterwards
LifterStale(Sw, B8) ==
  /\ pc = "lifter"
  /\ \E s \in Sw, b \in B8 :
       /\ lifterAtMax' = AtLimit(s[1])
       /\ lifterAtMin' = AtLimit(s[2])
       /\ inp' = [inp EXCEPT !.sMax = s[1], !.sMin = s[2], !.b8u = b[1], !.b8d = b[2]]
       /\ Send([m \in {LIFTER} |-> LifterCmd(b[1], b[2], lifterAtMax, lifterAtMin)])
  /\ pc' = "sorter"
  /\ UNCHANGED <<pickupIsActive, sorterFriendly, sorterEnemy, pickupLastTime,
                 now, enc, prev, hist>>

Lifter(Sw, B8) ==
  /\ pc = "lifter"
  /\ \E s \in Sw, b \in B8 :
       /\ lifterAtMax' = AtLimit(s[1])
       /\ lifterAtMin' = AtLimit(s[2])
       /\ inp' = [inp EXCEPT !.sMax = s[1], !.sMin = s[2], !.b8u = b[1], !.b8d = b[2]]
       /\ Send([m \in {LIFTER} |-> LifterCmd(b[1], b[2], AtLimit(s[1]), AtLimit(s[2]))])
  /\ pc' = "sorter"
  /\ UNCHANGED <<pickupIsActive, sorterFriendly, sorterEnemy, pickupLastTime,
                 now, enc, prev, hist>>

(***************************************************************************)
(* Sorter: lines 146-152, getArduinoOut, sort                              *)
(***************************************************************************)
\* lines 238-247: 1 when the Arduino pin reads high, otherwise 0
getArduinoOut(pin) == IF pin # LOW THEN 1 ELSE 0

\* mutant: the friendly trigger is not suppressed by sorterEnemy
TriggerFlagsOverEnemy(l, r, a1, a2, f, e) ==
  IF l \/ getArduinoOut(a1) = 0 THEN <<1, e>>
  ELSE IF (r \/ getArduinoOut(a2) = 1) /\ f = 0 THEN <<f, 1>>
  ELSE <<f, e>>

\* mutant: the enemy trigger is not suppressed by sorterFriendly
TriggerFlagsOverFriendly(l, r, a1, a2, f, e) ==
  IF (l \/ getArduinoOut(a1) = 0) /\ e = 0 THEN <<1, e>>
  ELSE IF r \/ getArduinoOut(a2) = 1 THEN <<f, 1>>
  ELSE <<f, e>>

\* mutant: the button of the other phase cancels the phase in progress
TriggerFlagsCancel(l, r, a1, a2, f, e) ==
  IF r /\ f # 0 THEN <<0, e>>
  ELSE IF l /\ e # 0 THEN <<f, 0>>
  ELSE IF (l \/ getArduinoOut(a1) = 0) /\ e = 0 THEN <<1, e>>
  ELSE IF (r \/ getArduinoOut(a2) = 1) /\ f = 0 THEN <<f, 1>>
  ELSE <<f, e>>

\* mutant: a phase starts only when the button is pressed and the pin agrees
TriggerFlagsAnd(l, r, a1, a2, f, e) ==
  IF (l /\ getArduinoOut(a1) = 0) /\ e = 0 THEN <<1, e>>
  ELSE IF (r /\ getArduinoOut(a2) = 1) /\ f = 0 THEN <<f, 1>>
  ELSE <<f, e>>

\* lines 148-151: <<sorterFriendly, sorterEnemy>> after the trigger step;
\* l, r: button 8 left and right; a1, a2: the pin as read by the first and
\* by the second call of getArduinoOut(); f, e: the flags before
TriggerFlags(l, r, a1, a2, f, e) ==
  IF (l \/ getArduinoOut(a1) = 0) /\ e = 0 THEN <<1, e>>
  ELSE IF (r \/ getArduinoOut(a2) = 1) /\ f = 0 THEN <<f, 1>>
  ELSE <<f, e>>

Trigger(B8, Pins) ==
  /\ pc = "sorter"
  /\ \E b \in B8, a \in Pins :
       LET fe == TriggerFlags(b[1], b[2], a[1], a[2], sorterFriendly, sorterEnemy) IN
       /\ sorterFriendly' = fe[1]
       /\ sorterEnemy' = fe[2]
       /\ inp' = [inp EXCEPT !.b8l = b[1], !.b8r = b[2], !.a1 = a[1], !.a2 = a[2]]
  /\ pc' = "sort"
  /\ UNCHANGED <<pickupIsActive, lifterAtMax, lifterAtMin, pickupLastTime,
                 now, enc, motor, issued, prev, hist>>

\* mutant: the completing branches leave the mixer running
SortStepMixerRuns(f, e, e1, e2, old) ==
  IF f # 0 /\ e = 0 THEN
    IF e1 <= 90 THEN
      [sorter |-> Set(20), mixer |-> Set(MIXER_SPEED), f |-> f, e |-> e,
       reset |-> FALSE, last |-> e1]
    ELSE IF e2 > 90 THEN
      [sorter |-> Stop, mixer |-> Set(MIXER_SPEED), f |-> 0, e |-> e,
       reset |-> TRUE, last |-> e2]
    ELSE
      [sorter |-> NoCmd, mixer |-> NoCmd, f |-> f, e |-> e,
       reset |-> FALSE, last |-> e2]
  ELSE IF e # 0 /\ f = 0 THEN
    IF e1 >= -90 THEN
      [sorter |-> Set(-20), mixer |-> Set(MIXER_SPEED), f |-> f, e |-> e,
       reset |-> FALSE, last |-> e1]
    ELSE IF e2 < -90 THEN
      [sorter |-> Stop, mixer |-> Set(MIXER_SPEED), f |-> f, e |-> 0,
       reset |-> TRUE, last |-> e2]
    ELSE
      [sorter |-> NoCmd, mixer |-> NoCmd, f |-> f, e |-> e,
       reset |-> FALSE, last |-> e2]
  ELSE
    [sorter |-> NoCmd, mixer |-> NoCmd, f |-> f, e |-> e,
     reset |-> FALSE, last |-> old]

\* mutant: the completing branches stop and reset but leave the flag set
SortStepKeepsFlag(f, e, e1, e2, old) ==
  IF f # 0 /\ e = 0 THEN
    IF e1 <= 90 THEN
      [sorter |-> Set(20), mixer |-> Set(MIXER_SPEED), f |-> f, e |-> e,
       reset |-> FALSE, last |-> e1]
    ELSE IF e2 > 90 THEN
      [sorter |-> Stop, mixer |-> Stop, f |-> f, e |-> e,
       reset |-> TRUE, last |-> e2]
    ELSE
      [sorter |-> NoCmd, mixer |-> NoCmd, f |-> f, e |-> e,
       reset |-> FALSE, last |-> e2]
  ELSE IF e # 0 /\ f = 0 THEN
    IF e1 >= -90 THEN
      [sorter |-> Set(-20), mixer |-> Set(MIXER_SPEED), f |-> f, e |-> e,
       reset |-> FALSE, last |-> e1]
    ELSE IF e2 < -90 THEN
      [sorter |-> Stop, mixer |-> Stop, f |-> f, e |-> e,
       reset |-> TRUE, last |-> e2]
    ELSE
      [sorter |-> NoCmd, mixer |-> NoCmd, f |-> f, e |-> e,
       reset |-> FALSE, last |-> e2]
  ELSE
    [sorter |-> NoCmd, mixer |-> NoCmd, f |-> f, e |-> e,
     reset |-> FALSE, last |-> old]

\* lines 204-236: what sort() does with the flags f, e when its first call of
\* encoderGet() returns e1 and its second call (made only when the first
\* test fails) returns e2.  sorter, mixer: the command sent, NoCmd for none;
\* f, e: the flags after; reset: encoderReset() was called; last: the value
\* the last call of encoderGet() returned
SortStep(f, e, e1, e2, old) ==
  IF f # 0 /\ e = 0 THEN
    IF e1 <= 90 THEN
      [sorter |-> Set(20), mixer |-> Set(MIXER_SPEED), f |-> f, e |-> e,
       reset |-> FALSE, last |-> e1]
    ELSE IF e2 > 90 THEN
      [sorter |-> Stop, mixer |-> Stop, f |-> 0, e |-> e,
       reset |-> TRUE, last |-> e2]
    ELSE
      [sorter |-> NoCmd, mixer |-> NoCmd, f |-> f, e |-> e,
       reset |-> FALSE, last |-> e2]
  ELSE IF e # 0 /\ f = 0 THEN
    IF e1 >= -90 THEN
      [sorter |-> Set(-20), mixer |-> Set(MIXER_SPEED), f |-> f, e |-> e,
       reset |-> FALSE, last |-> e1]
    ELSE IF e2 < -90 THEN
      [sorter |-> Stop, mixer |-> Stop, f |-> f, e |-> 0,
       reset |-> TRUE, last |-> e2]
    ELSE
      [sorter |-> NoCmd, mixer |-> NoCmd, f |-> f, e |-> e,
       reset |-> FALSE, last |-> e2]
  ELSE
    [sorter |-> NoCmd, mixer |-> NoCmd, f |-> f, e |-> e,
     reset |-> FALSE, last |-> old]

Sort(Reads) ==
  /\ pc = "sort"
  /\ \E r \in Reads :
       LET s == SortStep(sorterFriendly, sorterEnemy, r[1], r[2], enc) IN
       /\ sorterFriendly' = s.f
       /\ sorterEnemy' = s.e
       /\ enc' = IF s.reset THEN 0 ELSE s.last
       /\ IF s.sorter = NoCmd
            THEN UNCHANGED <<motor, issued>>
            ELSE Send([m \in {SORTER, MIXER} |-> IF m = SORTER THEN s.sorter ELSE s.mixer])
       /\ inp' = [inp EXCEPT !.f0 = sorterFriendly, !.e0 = sorterEnemy,
                             !.e1 = r[1], !.e2 = r[2]]
  /\ pc' = "delay"
  /\ UNCHANGED <<pickupIsActive, lifterAtMax, lifterAtMin, pickupLastTime,
                 now, prev, hist>>

(***************************************************************************)
(* End of the tick: lines 155-160                                          *)
(***************************************************************************)
\* delay(20) returns after d milliseconds and the loop starts over.  With
\* keep, the history remembers what the tick read and sent.
Delay(Steps, keep) ==
  /\ pc = "delay"
  /\ \E d \in Steps :
       /\ now + d <= MaxTime
       /\ now' = now + d
  /\ pc' = "loop"
  /\ issued' = NoCmds
  /\ inp' = NoInput
  /\ prev' = IF keep THEN [ok |-> TRUE, inp |-> inp, issued |-> issued] ELSE NoPrev
  /\ hist' = [hist EXCEPT !.phase = Phase(sorterFriendly, sorterEnemy), !.b7 = inp.b7]
  /\ UNCHANGED <<globals, enc, motor>>

\* delay(20) for a loop that never ends: the clock of millis() wraps, in the
\* build at 2^32, here to zero past MaxTime
DelayWrap(Steps) ==
  /\ pc = "delay"
  /\ \E d \in Steps :
       now' = IF now + d <= MaxTime THEN now + d ELSE 0
  /\ pc' = "loop"
  /\ issued' = NoCmds
  /\ inp' = NoInput
  /\ prev' = NoPrev
  /\ hist' = [hist EXCEPT !.phase = Phase(sorterFriendly, sorterEnemy), !.b7 = inp.b7]
  /\ UNCHANGED <<globals, enc, motor>>

\* what the two calls of encoderGet() in sort() can return when the encoder
\* turns with the sorter motor: above the value read last, and not falling
\* between the two calls, while the last command of the sorter is +20; below
\* it and not rising while it is -20; the value read last while the sorter is
\* stopped
EncoderReads ==
  IF motor[SORTER] = Set(20)
    THEN {r \in EncPairs : r[1] > enc /\ r[2] >= r[1]}
  ELSE IF motor[SORTER] = Set(-20)
    THEN {r \in EncPairs : r[1] < enc /\ r[2] <= r[1]}
  ELSE {<<enc, enc>>}

(***************************************************************************)
(* The task is stopped and started again: lines 13-29, 72-80               *)
(***************************************************************************)
\* The kernel stops the task wherever it is and a new task enters
\* operatorControl() at its first line.  The variables of lines 72-80 have
\* static storage: their initialisers run when the program is loaded, and
\* no statement of operatorControl() assigns them before the loop.
Restart ==
  /\ pc' = "loop"
  /\ issued' = NoCmds
  /\ inp' = NoInput
  /\ prev' = NoPrev
  /\ hist' = [hist EXCEPT !.fresh = TRUE]
  /\ UNCHANGED <<globals, now, enc, motor>>

(***************************************************************************)
(* Specifications                                                          *)
(***************************************************************************)
\* the drive: the joystick axes range over AxisVals
NextDrive ==
  \/ DriveCheck(JoyTriples)
  \/ MoveRobot(ControlTriples)
  \/ StopRobot
  \/ Pickup({FALSE})
  \/ Shooter(ButtonsRest)
  \/ Ramp(ButtonsRest)
  \/ Lifter(SwitchesRest, ButtonsRest)
  \/ Trigger(ButtonsRest, PinsRest)
  \/ Sort(EncRest)
  \/ Delay({TickDelay}, FALSE)

SpecDrive == Init /\ [][NextDrive]_vars

\* shooter, ramp and lifter: their buttons and the limit switches range freely
NextLifter ==
  \/ DriveCheck(AxisRest)
  \/ MoveRobot(ControlRest)
  \/ StopRobot
  \/ Pickup({FALSE})
  \/ Shooter(ButtonPairs)
  \/ Ramp(ButtonPairs)
  \/ Lifter(SwitchPairs, ButtonPairs)
  \/ Trigger(ButtonsRest, PinsRest)
  \/ Sort(EncRest)
  \/ Delay({TickDelay}, FALSE)

SpecLifter == Init /\ [][NextLifter]_vars

\* the pickup: button 7 right ranges freely
NextPickup ==
  \/ DriveCheck(AxisRest)
  \/ MoveRobot(ControlRest)
  \/ StopRobot
  \/ Pickup(BOOLEAN)
  \/ Shooter(ButtonsRest)
  \/ Ramp(ButtonsRest)
  \/ Lifter(SwitchesRest, ButtonsRest)
  \/ Trigger(ButtonsRest, PinsRest)
  \/ Sort(EncRest)
  \/ Delay({TickDelay}, FALSE)

SpecPickup == Init /\ [][NextPickup]_vars

\* the sorter: buttons 8 left and right, the Arduino pin and the encoder
\* range freely
NextSorter ==
  \/ DriveCheck(AxisRest)
  \/ MoveRobot(ControlRest)
  \/ StopRobot
  \/ Pickup({FALSE})
  \/ Shooter(ButtonsRest)
  \/ Ramp(ButtonsRest)
  \/ Lifter(SwitchesRest, ButtonsRest)
  \/ Trigger(ButtonPairs, PinPairs)
  \/ Sort(EncPairs)
  \/ Delay({TickDelay}, FALSE)

SpecSorter == Init /\ [][NextSorter]_vars

\* the whole loop: every input ranges over a few values, the ticks are long,
\* and the history keeps the previous tick
Next ==
  \/ DriveCheck(AxisRest)
  \/ MoveRobot(ControlPushed)
  \/ StopRobot
  \/ Pickup({FALSE})
  \/ Shooter(ButtonsFew)
  \/ Ramp(ButtonsFew)
  \/ Lifter(SwitchesFew, ButtonsFirst)
  \/ Trigger(ButtonsRest, PinsFew)
  \/ Sort(EncFew)
  \/ Delay({LongTick}, TRUE)

Spec == Init /\ [][Next]_vars

\* the pickup, the lifter's switches and the sorter, with long ticks and with
\* the task stopped and restarted at any position of the loop
NextRestart ==
  \/ DriveCheck(AxisRest)
  \/ MoveRobot(ControlPushed)
  \/ StopRobot
  \/ Pickup(BOOLEAN)
  \/ Shooter(ButtonsRest)
  \/ Ramp(ButtonsRest)
  \/ Lifter(SwitchesFew, ButtonsRest)
  \/ Trigger(ButtonsRest, PinsFew)
  \/ Sort(EncFew)
  \/ Delay({LongTick}, FALSE)
  \/ Restart

SpecRestart == Init /\ [][NextRestart]_vars

\* the loop runs forever and the encoder follows the sorter motor: buttons 8
\* left and right and the Arduino pin range freely
NextLive ==
  \/ DriveCheck(AxisRest)
  \/ MoveRobot(ControlRest)
  \/ StopRobot
  \/ Pickup({FALSE})
  \/ Shooter(ButtonsRest)
  \/ Ramp(ButtonsRest)
  \/ Lifter(SwitchesRest, ButtonsRest)
  \/ Trigger(ButtonPairs, PinPairs)
  \/ Sort(EncoderReads)
  \/ DelayWrap({TickDelay})

\* while (1) never exits and every call returns: the loop keeps taking steps
SpecLive == Init /\ [][NextLive]_vars /\ WF_vars(NextLive)

(***************************************************************************)
(* Claims                                                                  *)
(***************************************************************************)
\* positions of the loop at which the section named has run in this tick
AfterDrive == {"pickup", "shooter", "ramp", "lifter", "sorter", "sort", "delay"}
AfterLifter == {"sorter", "sort", "delay"}

\* C1: in every tick the lifter is not commanded upward (+127) when the
\* max-limit switch read LOW in that tick, and not commanded downward (-127)
\* when the min-limit switch read LOW, whatever the two buttons are.
C1_LifterInterlock ==
  pc \in AfterLifter =>
    /\ inp.sMax = LOW => issued[LIFTER] # Set(127) /\ motor[LIFTER] # Set(127)
    /\ inp.sMin = LOW => issued[LIFTER] # Set(-127) /\ motor[LIFTER] # Set(-127)

\* C1 witness: both buttons pressed with only the max-limit switch engaged;
\* the lifter has been sent downward.
C1_Witness ==
  /\ pc = "sorter"
  /\ inp.sMax = LOW /\ inp.sMin = HIGH
  /\ inp.b8u /\ inp.b8d
  /\ issued[LIFTER] = Set(-127)

\* C2: sorterFriendly and sorterEnemy are never both set, at any position of
\* the loop.
C2_SorterExclusive == ~(sorterFriendly # 0 /\ sorterEnemy # 0)

\* C2 witness: from Idle, both manual triggers pressed in the same tick; the
\* trigger step has set only sorterFriendly.
C2_Witness ==
  /\ pc = "sort"
  /\ hist.phase = "Idle"
  /\ inp.b8l /\ inp.b8r /\ inp.a2 = HIGH
  /\ sorterFriendly = 1 /\ sorterEnemy = 0

\* C3 (as claimed): in a tick that enters sort() in SortingFriendly and whose
\* sort() reads an encoder value above 90, sorter and mixer are stopped,
\* sorterFriendly is cleared and the encoder is zero; with a reading of 90 or
\* less the phase stays and the sorter is driven at +20.  Symmetrically for
\* SortingEnemy with -90 and -20.
C3_SortCompletes ==
  pc = "delay" =>
    /\ (inp.f0 # 0 /\ inp.e0 = 0 /\ inp.e1 > 90) =>
         /\ issued[SORTER] = Stop /\ issued[MIXER] = Stop
         /\ sorterFriendly = 0 /\ enc = 0
    /\ (inp.f0 # 0 /\ inp.e0 = 0 /\ inp.e1 <= 90) =>
         /\ sorterFriendly # 0 /\ issued[SORTER] = Set(20)
    /\ (inp.e0 # 0 /\ inp.f0 = 0 /\ inp.e1 < -90) =>
         /\ issued[SORTER] = Stop /\ issued[MIXER] = Stop
         /\ sorterEnemy = 0 /\ enc = 0
    /\ (inp.e0 # 0 /\ inp.f0 = 0 /\ inp.e1 >= -90) =>
         /\ sorterEnemy # 0 /\ issued[SORTER] = Set(-20)

\* C4: the sorter never goes from SortingFriendly to SortingEnemy, or back,
\* between the ends of two consecutive ticks; a tick that starts in
\* SortingFriendly leaves sorterEnemy clear whatever triggers arrive, and a
\* tick that starts in SortingEnemy leaves sorterFriendly clear.
C4_NoDirectSwitch ==
  /\ hist.phase = "SortingFriendly" => sorterEnemy = 0
  /\ hist.phase = "SortingEnemy" => sorterFriendly = 0
  /\ pc = "delay" =>
       LET ph == Phase(sorterFriendly, sorterEnemy) IN
       /\ ~(hist.phase = "SortingFriendly" /\ ph = "SortingEnemy")
       /\ ~(hist.phase = "SortingEnemy" /\ ph = "SortingFriendly")

\* C4 witness: a tick that started in SortingFriendly received the enemy
\* trigger on the button and on the pin, and its sort() completed the phase:
\* the tick ends in Idle.
C4_Witness ==
  /\ pc = "delay"
  /\ hist.phase = "SortingFriendly"
  /\ ~inp.b8l /\ inp.b8r /\ inp.a1 = HIGH /\ inp.a2 = HIGH
  /\ Phase(sorterFriendly, sorterEnemy) = "Idle"

\* every channel the deadzone test read is within the deadzone
InDeadzone(j) == \A i \in 1..3 : -DEADZONE <= j[i] /\ j[i] <= DEADZONE

\* C5: in every tick whose three axes all have magnitude at most DEADZONE, all
\* four drive motors receive a stop command and none a power command.
C5_DeadzoneStops ==
  (pc \in AfterDrive /\ InDeadzone(inp.joy)) =>
    \A m \in DriveMotors : issued[m] = Stop /\ motor[m] = Stop

\* C5 witness: every axis sits on the edge of the deadzone and the drive has
\* been stopped.
C5_Witness ==
  /\ pc = "pickup"
  /\ inp.joy = <<20, 20, 20>>
  /\ \A m \in DriveMotors : issued[m] = Stop

\* C6: in every tick with an axis beyond the deadzone the four powers sent
\* are frontLeft = -throttle - strafe + turn, frontRight = -throttle + strafe
\* + turn, backLeft = -throttle - strafe - turn, backRight = -throttle +
\* strafe - turn, with strafe, throttle, turn the channels 3, 1, 4 as
\* moveRobot read them.
C6_Mixing ==
  (pc \in AfterDrive /\ ~InDeadzone(inp.joy)) =>
    LET strafe == inp.control[1]
        throttle == inp.control[2]
        turn == inp.control[3]
    IN
    /\ issued[M_FRONT_LEFT] = Set(0 - throttle - strafe + turn)
    /\ issued[M_FRONT_RIGHT] = Set(0 - throttle + strafe + turn)
    /\ issued[M_BACK_LEFT] = Set(0 - throttle - strafe - turn)
    /\ issued[M_BACK_RIGHT] = Set(0 - throttle + strafe - turn)

\* C6 witness: three different non-zero axis values have been mixed.
C6_Witness ==
  /\ pc = "pickup"
  /\ inp.joy = <<-21, 127, 20>>
  /\ inp.control = <<127, 20, -127>>
  /\ issued[M_FRONT_LEFT] = Set(-274)
  /\ issued[M_BACK_RIGHT] = Set(234)

\* C7: two consecutive flips of pickupIsActive are more than debounceDelay
\* apart.
C7_FlipSpacing ==
  hist.flips[1] >= 0 => hist.flips[2] - hist.flips[1] > debounceDelay

\* C7 witness: the flag has flipped twice and is clear again, and the button
\* was read pressed in ticks between the two flips.
C7_Witness ==
  /\ pc = "shooter"
  /\ hist.flips[1] >= 0
  /\ hist.b7 /\ inp.b7 /\ inp.flip
  /\ pickupIsActive = 0

\* C8 (as claimed): a rising edge of button 7 right that comes more than
\* debounceDelay after the previous edge, or is the first one, flips
\* pickupIsActive.
C8_EdgeFlips ==
  ( /\ pc = "shooter"
    /\ inp.b7 /\ ~hist.b7
    /\ (hist.edges[1] < 0 \/ hist.edges[2] - hist.edges[1] > debounceDelay) )
  => inp.flip

\* the inputs a tick has read: everything in inp but what the tick computed
InputsOf(i) ==
  << i.joy, i.control, i.b7, i.b5d, i.b5u, i.b6u, i.b6d, i.sMax, i.sMin,
     i.b8u, i.b8d, i.b8l, i.b8r, i.a1, i.a2, i.e1, i.e2 >>

\* the inputs of the drive, shooter, ramp and lifter sections
ManualInputsOf(i) ==
  << i.joy, i.control, i.b5d, i.b5u, i.b6u, i.b6d, i.sMax, i.sMin, i.b8u, i.b8d >>

ManualMotors == DriveMotors \cup {SHOOTER, RAMP, LIFTER}

\* C9 (as claimed): a tick that reads the same inputs as the previous tick
\* (joystick, buttons, switches, pin, and the encoder as well) issues the same
\* command to every actuator as the previous tick.
C9_SameInputsSameCommands ==
  (pc = "delay" /\ prev.ok /\ InputsOf(inp) = InputsOf(prev.inp)) =>
    issued = prev.issued

\* C9 (amended): a tick that reads the same axes, shooter, ramp and lifter
\* buttons and limit switches as the previous tick issues the same commands
\* to the drive, shooter, ramp and lifter motors as the previous tick.
C9_SameInputsSameManualCommands ==
  (pc = "delay" /\ prev.ok /\ ManualInputsOf(inp) = ManualInputsOf(prev.inp)) =>
    \A m \in ManualMotors : issued[m] = prev.issued[m]

\* C9 witness: two ticks in a row read the same inputs, both drive the robot
\* and send the lifter up, and the command to the sorter differs between them.
C9_Witness ==
  /\ pc = "delay" /\ prev.ok
  /\ InputsOf(inp) = InputsOf(prev.inp)
  /\ issued[LIFTER] = Set(127) /\ prev.issued[LIFTER] = Set(127)
  /\ issued[M_FRONT_LEFT] = Set(-127)
  /\ issued[SORTER] # prev.issued[SORTER]

\* C10 (as claimed): when the task has been stopped and restarted, the loop
\* starts with pickupIsActive, lifterAtMax, lifterAtMin, sorterFriendly,
\* sorterEnemy and pickupLastTime at 0.
C10_RestartResets ==
  hist.fresh =>
    /\ pickupIsActive = 0
    /\ lifterAtMax = 0
    /\ lifterAtMin = 0
    /\ sorterFriendly = 0
    /\ sorterEnemy = 0
    /\ pickupLastTime = 0

\* C11: a tick that enters sort() in SortingFriendly with the encoder reading
\* 90 or less keeps sorterFriendly set and sends +20 to the sorter; in a tick
\* that started in SortingFriendly the flag is clear, or the sorter has been
\* sent a stop, only after sort() read the encoder above 90, whatever the
\* buttons, the pin and the clock are.  Symmetrically for SortingEnemy with
\* -20 and readings below -90.
C11_EncoderEndsPhase ==
  /\ (pc = "delay" /\ inp.f0 # 0 /\ inp.e0 = 0 /\ inp.e1 <= 90) =>
       sorterFriendly # 0 /\ issued[SORTER] = Set(20) /\ motor[SORTER] = Set(20)
  /\ (pc = "delay" /\ inp.e0 # 0 /\ inp.f0 = 0 /\ inp.e1 >= -90) =>
       sorterEnemy # 0 /\ issued[SORTER] = Set(-20) /\ motor[SORTER] = Set(-20)
  /\ (hist.phase = "SortingFriendly" /\ (sorterFriendly = 0 \/ issued[SORTER] = Stop)) =>
       pc = "delay" /\ inp.e1 > 90 /\ inp.e2 > 90
  /\ (hist.phase = "SortingEnemy" /\ (sorterEnemy = 0 \/ issued[SORTER] = Stop)) =>
       pc = "delay" /\ inp.e1 < -90 /\ inp.e2 < -90

\* C11 witness: a tick that started in SortingFriendly read the enemy button
\* pressed and the pin high, late on the clock, with the encoder at 90: the
\* flag is still set and the sorter has been sent +20 again.
C11_Witness ==
  /\ pc = "delay"
  /\ hist.phase = "SortingFriendly"
  /\ inp.b8r /\ inp.a1 = HIGH /\ inp.a2 = HIGH
  /\ inp.e1 = 90
  /\ now >= 2 * debounceDelay
  /\ sorterFriendly = 1 /\ issued[SORTER] = Set(20)

\* C12: in every tick with the max-limit switch engaged, the min-limit switch
\* not engaged and the down button pressed, the lifter is sent -127, with the
\* up button pressed or not; with the min-limit switch engaged, the max-limit
\* switch not engaged and the up button pressed, it is sent +127.
C12_LifterEscapes ==
  pc \in AfterLifter =>
    /\ (inp.sMax = LOW /\ inp.sMin = HIGH /\ inp.b8d) => issued[LIFTER] = Set(-127)
    /\ (inp.sMin = LOW /\ inp.sMax = HIGH /\ inp.b8u) => issued[LIFTER] = Set(127)

\* C12 witness: at the lower limit with both buttons pressed the lifter has
\* been sent upward.
C12_Witness ==
  /\ pc = "sorter"
  /\ inp.sMin = LOW /\ inp.sMax = HIGH
  /\ inp.b8u /\ inp.b8d
  /\ issued[LIFTER] = Set(127) /\ lifterAtMin = 1

\* C13 as stated: after the shooter and ramp sections of a tick, each is
\* commanded forward only if its forward button was read pressed in that
\* tick, and a tick that read the forward button released leaves the actuator
\* not commanded forward.
C13_BothMomentary ==
  pc = "lifter" =>
    /\ issued[SHOOTER] = Set(80) => inp.b5d
    /\ issued[RAMP] = Set(127) => inp.b6u
    /\ ~inp.b5d => motor[SHOOTER] # Set(80)
    /\ ~inp.b6u => motor[RAMP] # Set(127)

\* C13 amended: the ramp is momentary: every tick sends it +127 with button 6
\* up pressed, -127 with button 6 down pressed alone and a stop with neither.
\* The shooter is latched: a tick sends it 80 with button 5 down pressed, a
\* stop with button 5 up pressed alone, and nothing with neither pressed, so
\* the last command of the shooter stays what it was.
C13_RampMomentaryShooterLatched ==
  pc = "lifter" =>
    /\ issued[RAMP] = (IF inp.b6u THEN Set(127)
                       ELSE IF inp.b6d THEN Set(-127) ELSE Stop)
    /\ motor[RAMP] = issued[RAMP]
    /\ issued[SHOOTER] = (IF inp.b5d THEN Set(80)
                          ELSE IF inp.b5u THEN Stop ELSE NoCmd)
    /\ issued[SHOOTER] # NoCmd => motor[SHOOTER] = issued[SHOOTER]
    /\ motor[SHOOTER] \in {NoCmd, Set(80), Stop}

\* C13 witness: a tick that read both shooter buttons released and sent the
\* shooter nothing, with the shooter still running at 80 from an earlier tick,
\* and the ramp stopped on release.
C13_Witness ==
  /\ pc = "lifter"
  /\ ~inp.b5d /\ ~inp.b5u
  /\ issued[SHOOTER] = NoCmd /\ motor[SHOOTER] = Set(80)
  /\ ~inp.b6u /\ ~inp.b6d /\ motor[RAMP] = Stop

\* C14: pickupIsActive flips only in a tick that read button 7 right pressed
\* after the previous tick read it not pressed.
C14_FlipOnlyOnRisingEdge ==
  (pc = "shooter" /\ inp.flip) => (inp.b7 /\ ~hist.b7)

\* C15: at the end of every tick the last command sent to the pickup is 127
\* if pickupIsActive is set, and a stop, or no command at all so far, if it
\* is clear.
C15_PickupFollowsFlag ==
  pc = "delay" =>
    /\ pickupIsActive # 0 => motor[PICKUP] = Set(127)
    /\ pickupIsActive = 0 => motor[PICKUP] \in {Stop, NoCmd}

\* C15 witness: the end of a tick after the flag has flipped on and off again:
\* the pickup has been stopped.
C15_Witness ==
  /\ pc = "delay"
  /\ hist.flips[1] >= 0
  /\ pickupIsActive = 0
  /\ motor[PICKUP] = Stop

\* C17: a step of the loop changes pickupLastTime exactly when it flips
\* pickupIsActive; the pickup section of a tick that reads button 7 right not
\* pressed, or pressed with no more than debounceDelay elapsed since
\* pickupLastTime, leaves both unchanged.
C17_TimestampFrame ==
  [][ /\ (pickupLastTime' # pickupLastTime) <=> (pickupIsActive' # pickupIsActive)
      /\ ( /\ pc = "pickup"
           /\ (~inp'.b7 \/ now - pickupLastTime <= debounceDelay) )
         => UNCHANGED <<pickupLastTime, pickupIsActive>> ]_vars

\* C17 witness: a tick read the button pressed within debounceDelay of the
\* last flip: no flip, the flag is still set and pickupLastTime is the time
\* of that flip.
C17_Witness ==
  /\ pc = "shooter"
  /\ inp.b7 /\ ~inp.flip
  /\ pickupIsActive = 1
  /\ hist.flips[2] > 0
  /\ pickupLastTime \in MillisAfter(hist.flips[2])
  /\ now - pickupLastTime <= debounceDelay

\* C16: every power moveRobot passes to a drive motor lies within -127..127,
\* for every triple of channel values within -127..127.
C16_PowersInRange ==
  pc \in AfterDrive =>
    \A m \in DriveMotors :
      issued[m][1] = "set" => issued[m][2] \in -127..127

\* C18: at the end of a tick whose sort() got the same value from both reads
\* of the encoder, the last command of the sorter is +20 exactly when
\* sorterFriendly is set and -20 exactly when sorterEnemy is set, it is a stop
\* or no command at all when both are clear, and the last command of the
\* mixer is MIXER_SPEED exactly when one of the flags is set.
C18_SorterAgreesWithPhase ==
  (pc = "delay" /\ inp.e1 = inp.e2) =>
    /\ (sorterFriendly # 0) <=> (motor[SORTER] = Set(20))
    /\ (sorterEnemy # 0) <=> (motor[SORTER] = Set(-20))
    /\ (sorterFriendly = 0 /\ sorterEnemy = 0) => motor[SORTER] \in {Stop, NoCmd}
    /\ (sorterFriendly # 0 \/ sorterEnemy # 0) <=> (motor[MIXER] = Set(MIXER_SPEED))

\* C18 witness: the end of the tick that completes a friendly phase: both reads
\* gave 91, both flags are clear, sorter and mixer are stopped.
C18_Witness ==
  /\ pc = "delay"
  /\ inp.f0 = 1
  /\ inp.e1 = 91 /\ inp.e2 = 91
  /\ sorterFriendly = 0 /\ sorterEnemy = 0
  /\ motor[SORTER] = Stop /\ motor[MIXER] = Stop

\* C19: in a tick that starts with both flags clear and reads the Arduino pin
\* with the same result both times, exactly one of the flags is set when
\* sort() is about to run, whatever buttons 8 left and 8 right read.
C19_IdleDoesNotPersist ==
  (pc = "sort" /\ hist.phase = "Idle" /\ inp.a1 = inp.a2) =>
    Phase(sorterFriendly, sorterEnemy) \in {"SortingFriendly", "SortingEnemy"}

\* C19 witness: after a phase has completed (the sorter is stopped) a tick
\* that started idle and read no button pressed and the pin high has set
\* sorterEnemy.
C19_Witness ==
  /\ pc = "sort"
  /\ hist.phase = "Idle"
  /\ motor[SORTER] = Stop
  /\ ~inp.b8l /\ ~inp.b8r
  /\ inp.a1 = HIGH /\ inp.a2 = HIGH
  /\ sorterFriendly = 0 /\ sorterEnemy = 1

\* C20: with the loop running forever and the encoder reading rising from
\* tick to tick while the sorter is commanded at +20 (falling while at -20),
\* every SortingFriendly phase leads to the end of a tick that has cleared
\* sorterFriendly and reset the encoder, and every SortingEnemy phase to the
\* end of a tick that has cleared sorterEnemy and reset the encoder.
C20_PhaseCompletes ==
  /\ (sorterFriendly # 0) ~>
       (pc = "delay" /\ inp.f0 # 0 /\ sorterFriendly = 0 /\ enc = 0)
  /\ (sorterEnemy # 0) ~>
       (pc = "delay" /\ inp.e0 # 0 /\ sorterEnemy = 0 /\ enc = 0)

\* C20 witness: the end of the tick that completes a friendly phase after the
\* encoder has climbed past 90 under a sorter running at +20: the flag is
\* clear, the encoder is reset and the sorter is stopped.
C20_Witness ==
  /\ pc = "delay"
  /\ inp.f0 # 0 /\ sorterFriendly = 0
  /\ inp.e1 > 90 /\ enc = 0
  /\ issued[SORTER] = Stop
  /\ now > 0

====
